---- MODULE Spec2Model ----
(***************************************************************************)
(* Model of easybuild/tools/toolchain/toolchain.py: the Toolchain class.   *)
(* Python strings are TLA+ strings (concatenated with \o), a dependency    *)
(* descriptor is a function whose DOMAIN is the set of keys the dict has.  *)
(***************************************************************************)
EXTENDS Integers, Sequences, FiniteSets, TLC

VARIABLES
    name,                    \* self.name
    version,                 \* self.version
    module_names,            \* the *_MODULE_NAME class attributes of the toolchain
    optional,                \* the elements for which is_required is overridden to False
    option32bit,             \* self.options['32bit']
    modules,                 \* module backend: the (name, version) pairs that exist
    dependencies,            \* self.dependencies
    toolchain_dependencies,  \* self.toolchain_dependencies
    variables,               \* self.variables (the variable store)
    vars,                    \* self.vars: none is TRUE while self.vars is None
    environ,                 \* the process environment as written by setvar
    pending,                 \* module backend: modules added by add_module, not yet loaded
    loaded,                  \* module backend: modules loaded by load()
    pc,                      \* position of the caller / of prepare
    onlymod,                 \* argument of the running prepare call
    error,                   \* exception raised by the last operation ("" when none)
    mismatch,                \* outcome of the consistency check of the last prepare
    resolved,                \* outcome of the last get_dependency_version call
    added,                   \* input and starting list of the last add_dependencies call
    log,                     \* backend calls and stages of the last operation, in order
    paths,                   \* arguments and subdirectory lists of the last flag assembly
    prepares                 \* number of prepare calls made

vars_all == <<name, version, module_names, optional, option32bit, modules,
              dependencies, toolchain_dependencies, variables, vars, environ,
              pending, loaded, pc, onlymod, error, mismatch, resolved, added, log,
              paths, prepares>>

----------------------------------------------------------------------------
(* Bounds of the model *)

MaxInput == 2       \* longest list handed to add_dependencies
MaxDeps == 2        \* longest self.dependencies explored
MaxPrepares == 1    \* prepare calls per behaviour
MaxExtra == 2       \* longest list of extra subdirectories, and of names, handed
                    \* to _add_dependency_variables

----------------------------------------------------------------------------
(* Constants of the class and of Python *)

DUMMY_NAME == "dummy"
DUMMY_VERSION == "dummy"

\* Python's None, and the marker of a dict key that is not given
None == "<None>"
Absent == "<absent>"

Last(s) == s[Len(s)]

\* str.endswith
EndsWith(s, t) == Len(t) <= Len(s) /\ SubSeq(s, Len(s) - Len(t) + 1, Len(s)) = t

Event(op, arg) == [op |-> op, arg |-> arg]

----------------------------------------------------------------------------
(* Inputs *)

\* a *_MODULE_NAME attribute: a list of names, or one name given as a string
NameList(l) == [isList |-> TRUE, items |-> l]
NameStr(n) == [isList |-> FALSE, items |-> <<n>>]

\* the toolchains explored: the base class under the name GCC, two subclasses
\* with module-name attributes (all lists; one a plain string), and the dummy
\* toolchain with the dummy version and with a version of its own
Toolchains ==
    { [name |-> "GCC", version |-> "4.7", module_names |-> <<>>, optional |-> {}],
      [name |-> "GCC", version |-> "4.7", optional |-> {},
       module_names |-> [COMPILER_MODULE_NAME |-> NameList(<<"GCC">>),
                         MPI_MODULE_NAME |-> NameList(<<"OpenMPI">>)]],
      [name |-> "GCC", version |-> "4.7", optional |-> {},
       module_names |-> [COMPILER_MODULE_NAME |-> NameList(<<"GCC">>),
                         MPI_MODULE_NAME |-> NameStr("OpenMPI")]],
      \* a subclass whose is_required returns False for OpenMPI
      [name |-> "GCC", version |-> "4.7", optional |-> {"OpenMPI"},
       module_names |-> [COMPILER_MODULE_NAME |-> NameList(<<"GCC">>),
                         MPI_MODULE_NAME |-> NameList(<<"OpenMPI">>)]],
      [name |-> DUMMY_NAME, version |-> DUMMY_VERSION, module_names |-> <<>>,
       optional |-> {}],
      [name |-> DUMMY_NAME, version |-> "4.7", module_names |-> <<>>,
       optional |-> {}] }

\* the modules the backend may hold, in the backend's ascending order
ModuleOrder ==
    << <<"GCC", "4.7">>,
       <<"OpenMPI", "1.4-GCC-4.7">>,
       <<"OpenMPI", "1.6">>,
       <<"OpenMPI", "1.6-GCC-4.7">>,
       <<"OpenMPI", "1.64.7">>,
       <<"zlib", "1.2.8">> >>

ModuleSet == { ModuleOrder[i] : i \in 1..Len(ModuleOrder) }

\* the contents of the backend explored: everything, the toolchain module
\* missing, no OpenMPI module at all, a single OpenMPI module
BackendConfigs ==
    { ModuleSet,
      ModuleSet \ { <<"GCC", "4.7">> },
      { <<"GCC", "4.7">>, <<"zlib", "1.2.8">> },
      { <<"GCC", "4.7">>, <<"OpenMPI", "1.6-GCC-4.7">> } }

DepNames == { "OpenMPI", "zlib" }

\* a dependency dict with the given keys; Absent leaves the key out
MkDep(n, v, s, d, tc, tk) ==
    [ k \in {"name"} \cup (IF v = Absent THEN {} ELSE {"version"})
                     \cup (IF s = Absent THEN {} ELSE {"suffix"})
                     \cup (IF d THEN {DUMMY_NAME} ELSE {})
                     \cup (IF tc = Absent THEN {} ELSE {"tc"})
                     \cup (IF tk = Absent THEN {} ELSE {"tk"})
      |-> CASE k = "name" -> n
            [] k = "version" -> v
            [] k = "suffix" -> s
            [] k = DUMMY_NAME -> TRUE
            [] k = "tc" -> tc
            [] k = "tk" -> tk ]

\* the dependencies handed to get_dependency_version
ResolveUniverse ==
    { MkDep(n, v, s, d, Absent, Absent) :
        n \in DepNames, v \in {Absent, "1.6"}, s \in {Absent, "-x"}, d \in BOOLEAN }

\* the dependencies handed to add_dependencies: an explicit version, neither
\* version nor tc, an explicit tc, the legacy key
DepUniverse ==
    { MkDep("OpenMPI", "1.6", Absent, FALSE, Absent, Absent),
      MkDep("OpenMPI", Absent, Absent, FALSE, Absent, Absent),
      MkDep("zlib", Absent, Absent, FALSE, "1.2.8", Absent),
      MkDep("OpenMPI", "1.6", Absent, FALSE, Absent, "GCC") }

DepLists ==
    UNION { [1..n -> DepUniverse] : n \in 0..MaxInput }

\* the lists over a set of at most MaxExtra elements
ListsOf(S) == UNION { [1..n -> S] : n \in 0..MaxExtra }

\* the cpp, ld and names arguments handed to _add_dependency_variables
CppExtras == ListsOf({"include", "inc"})
LdExtras == ListsOf({"lib", "lib64", "lib32"})
NameArgs == ListsOf(DepNames \cup {None})

\* the values of prepare's onlymod argument: None, a boolean, a comma-separated
\* string, a list of names or a set of names (names holds the names it lists)
OnlymodNone == [kind |-> "None", names |-> <<>>]

Onlymods ==
    { OnlymodNone,
      [kind |-> "True", names |-> <<>>],
      [kind |-> "False", names |-> <<>>],
      [kind |-> "str", names |-> <<"LDFLAGS">>],
      [kind |-> "list", names |-> <<"LDFLAGS">>],
      [kind |-> "set", names |-> <<"LDFLAGS">>] }

----------------------------------------------------------------------------
(* Module backend (easybuild.tools.modules.Modules) *)

\* Modules().exists(name, version)
exists(n, v) == <<n, v>> \in modules

\* Modules().available(name, suffix): the ordered list of matches
available(n, sfx) ==
    SelectSeq(ModuleOrder,
              LAMBDA m : m \in modules /\ m[1] = n /\ EndsWith(m[2], sfx))

----------------------------------------------------------------------------
(* Toolchain.get_dependency_version *)

\* dict.get(key, default)
Get(dep, key, default) == IF key \in DOMAIN dep THEN dep[key] ELSE default

\* variant: an empty identifier is returned when nothing matches
get_dependency_version_placeholder(dependency) ==
    LET toolchain0 == IF name # DUMMY_NAME
                        THEN "-" \o name \o "-" \o version
                        ELSE IF version # DUMMY_VERSION THEN version ELSE ""
        toolchain == IF DUMMY_NAME \in DOMAIN dependency /\ dependency[DUMMY_NAME]
                       THEN "" ELSE toolchain0
        suffix == Get(dependency, "suffix", "")
        toolchain_suffix == toolchain \o suffix
        matches == available(dependency["name"], toolchain_suffix)
        query == Event("available", << <<dependency["name"], toolchain_suffix>> >>)
    IN IF "version" \in DOMAIN dependency
         THEN [ok |-> TRUE, value |-> dependency["version"] \o toolchain \o suffix,
               calls |-> <<>>, matches |-> <<>>]
         ELSE IF Len(matches) > 0
                THEN \* line 244: a bare return
                     [ok |-> TRUE, value |-> None,
                      calls |-> <<query>>, matches |-> matches]
                ELSE [ok |-> TRUE, value |-> "",
                      calls |-> <<query>>, matches |-> matches]

\* variant: the toolchain-independent marker of the dependency is ignored
get_dependency_version_always_qualified(dependency) ==
    LET toolchain0 == IF name # DUMMY_NAME
                        THEN "-" \o name \o "-" \o version
                        ELSE IF version # DUMMY_VERSION THEN version ELSE ""
        toolchain == toolchain0
        suffix == Get(dependency, "suffix", "")
        toolchain_suffix == toolchain \o suffix
        matches == available(dependency["name"], toolchain_suffix)
        query == Event("available", << <<dependency["name"], toolchain_suffix>> >>)
    IN IF "version" \in DOMAIN dependency
         THEN [ok |-> TRUE, value |-> dependency["version"] \o toolchain \o suffix,
               calls |-> <<>>, matches |-> <<>>]
         ELSE IF Len(matches) > 0
                THEN \* line 244: a bare return
                     [ok |-> TRUE, value |-> None,
                      calls |-> <<query>>, matches |-> matches]
                ELSE [ok |-> FALSE, value |-> None,
                      calls |-> <<query>>, matches |-> matches]

\* variant: the dummy toolchain never adds its version
get_dependency_version_dummy_unqualified(dependency) ==
    LET toolchain0 == IF name # DUMMY_NAME
                        THEN "-" \o name \o "-" \o version
                        ELSE ""
        toolchain == IF DUMMY_NAME \in DOMAIN dependency /\ dependency[DUMMY_NAME]
                       THEN "" ELSE toolchain0
        suffix == Get(dependency, "suffix", "")
        toolchain_suffix == toolchain \o suffix
        matches == available(dependency["name"], toolchain_suffix)
        query == Event("available", << <<dependency["name"], toolchain_suffix>> >>)
    IN IF "version" \in DOMAIN dependency
         THEN [ok |-> TRUE, value |-> dependency["version"] \o toolchain \o suffix,
               calls |-> <<>>, matches |-> <<>>]
         ELSE IF Len(matches) > 0
                THEN \* line 244: a bare return
                     [ok |-> TRUE, value |-> None,
                      calls |-> <<query>>, matches |-> matches]
                ELSE [ok |-> FALSE, value |-> None,
                      calls |-> <<query>>, matches |-> matches]

get_dependency_version(dependency) ==
    LET toolchain0 == IF name # DUMMY_NAME
                        THEN "-" \o name \o "-" \o version
                        ELSE IF version # DUMMY_VERSION THEN version ELSE ""
        toolchain == IF DUMMY_NAME \in DOMAIN dependency /\ dependency[DUMMY_NAME]
                       THEN "" ELSE toolchain0
        suffix == Get(dependency, "suffix", "")
        toolchain_suffix == toolchain \o suffix
        matches == available(dependency["name"], toolchain_suffix)
        query == Event("available", << <<dependency["name"], toolchain_suffix>> >>)
    IN IF "version" \in DOMAIN dependency
         THEN [ok |-> TRUE, value |-> dependency["version"] \o toolchain \o suffix,
               calls |-> <<>>, matches |-> <<>>]
         ELSE IF Len(matches) > 0
                THEN \* line 244: a bare return
                     [ok |-> TRUE, value |-> None,
                      calls |-> <<query>>, matches |-> matches]
                ELSE [ok |-> FALSE, value |-> None,
                      calls |-> <<query>>, matches |-> matches]

----------------------------------------------------------------------------
(* Toolchain.add_dependencies *)

\* dep['tc'] = value
SetTc(dep, value) ==
    [k \in DOMAIN dep \cup {"tc"} |-> IF k = "tc" THEN value ELSE dep[k]]

E_LEGACY_TK == "add_dependencies: legacy tk found in dep"
E_NO_MODULE == "add_dependencies: no module found for dependency"
E_NO_VERSION == "get_dependency_version: No toolchain version for dependency"

\* variant: the legacy key is looked for after the dependency was resolved and
\* looked up in the backend
RECURSIVE add_dependencies_tk_late(_, _, _)
add_dependencies_tk_late(deps, input, i) ==
    IF i > Len(input)
      THEN [deps |-> deps, error |-> "", calls |-> <<>>]
      ELSE
        LET dep == input[i]
            r == get_dependency_version(dep)
            dep2 == IF "tc" \in DOMAIN dep THEN dep ELSE SetTc(dep, r.value)
            resolve == IF "tc" \in DOMAIN dep THEN <<>> ELSE r.calls
            check == Event("exists", << <<dep2["name"], dep2["tc"]>> >>)
        IN IF "tc" \notin DOMAIN dep /\ ~r.ok
             THEN [deps |-> deps, error |-> E_NO_VERSION, calls |-> resolve]
             ELSE IF ~exists(dep2["name"], dep2["tc"])
               THEN [deps |-> deps, error |-> E_NO_MODULE,
                     calls |-> resolve \o <<check>>]
               ELSE IF "tk" \in DOMAIN dep
                 THEN [deps |-> deps, error |-> E_LEGACY_TK,
                       calls |-> resolve \o <<check>>]
                 ELSE LET rest == add_dependencies_tk_late(Append(deps, dep2), input, i + 1)
                      IN [rest EXCEPT !.calls = resolve \o <<check>> \o @]

\* variant: a dependency that fails is skipped and the loop goes on
RECURSIVE add_dependencies_skipping(_, _, _)
add_dependencies_skipping(deps, input, i) ==
    IF i > Len(input)
      THEN [deps |-> deps, error |-> "", calls |-> <<>>]
      ELSE
        LET dep == input[i]
            r == get_dependency_version(dep)
            dep2 == IF "tc" \in DOMAIN dep THEN dep ELSE SetTc(dep, r.value)
            resolve == IF "tc" \in DOMAIN dep THEN <<>> ELSE r.calls
            check == Event("exists", << <<dep2["name"], dep2["tc"]>> >>)
            failure == IF "tk" \in DOMAIN dep THEN E_LEGACY_TK
                       ELSE IF "tc" \notin DOMAIN dep /\ ~r.ok THEN E_NO_VERSION
                       ELSE IF ~exists(dep2["name"], dep2["tc"]) THEN E_NO_MODULE
                       ELSE ""
            rest == add_dependencies_skipping(IF failure = "" THEN Append(deps, dep2) ELSE deps,
                                              input, i + 1)
        IN [rest EXCEPT !.calls = resolve \o <<check>> \o @,
                        !.error = IF failure = "" THEN @ ELSE failure]

\* variant: the dependency is appended without the exists query
RECURSIVE add_dependencies_unchecked(_, _, _)
add_dependencies_unchecked(deps, input, i) ==
    IF i > Len(input)
      THEN [deps |-> deps, error |-> "", calls |-> <<>>]
      ELSE
        LET dep == input[i]
            r == get_dependency_version(dep)
            dep2 == IF "tc" \in DOMAIN dep THEN dep ELSE SetTc(dep, r.value)
            resolve == IF "tc" \in DOMAIN dep THEN <<>> ELSE r.calls
        IN IF "tk" \in DOMAIN dep
             THEN [deps |-> deps, error |-> E_LEGACY_TK, calls |-> <<>>]
             ELSE IF "tc" \notin DOMAIN dep /\ ~r.ok
               THEN [deps |-> deps, error |-> E_NO_VERSION, calls |-> resolve]
               ELSE LET rest == add_dependencies_unchecked(Append(deps, dep2), input, i + 1)
                    IN [rest EXCEPT !.calls = resolve \o @]

\* the for loop of add_dependencies from element i on: the resulting list,
\* the exception that ended the loop ("" when none) and the backend calls made
RECURSIVE add_dependencies(_, _, _)
add_dependencies(deps, input, i) ==
    IF i > Len(input)
      THEN [deps |-> deps, error |-> "", calls |-> <<>>]
      ELSE
        LET dep == input[i]
            r == get_dependency_version(dep)
            dep2 == IF "tc" \in DOMAIN dep THEN dep ELSE SetTc(dep, r.value)
            resolve == IF "tc" \in DOMAIN dep THEN <<>> ELSE r.calls
            check == Event("exists", << <<dep2["name"], dep2["tc"]>> >>)
        IN IF "tk" \in DOMAIN dep
             THEN [deps |-> deps, error |-> E_LEGACY_TK, calls |-> <<>>]
             ELSE IF "tc" \notin DOMAIN dep /\ ~r.ok
               THEN [deps |-> deps, error |-> E_NO_VERSION, calls |-> resolve]
               ELSE IF ~exists(dep2["name"], dep2["tc"])
                 THEN [deps |-> deps, error |-> E_NO_MODULE,
                       calls |-> resolve \o <<check>>]
                 ELSE LET rest == add_dependencies(Append(deps, dep2), input, i + 1)
                      IN [rest EXCEPT !.calls = resolve \o <<check>> \o @]

----------------------------------------------------------------------------
(* Toolchain._toolchain_exists *)

\* variant: every toolchain is taken to exist
_toolchain_exists_unchecked == [result |-> TRUE, calls |-> <<>>]

\* the result and the backend calls made
_toolchain_exists ==
    IF name = DUMMY_NAME
      THEN [result |-> TRUE, calls |-> <<>>]
      ELSE [result |-> exists(name, version),
            calls |-> << Event("exists", << <<name, version>> >>) >>]

E_NO_TOOLCHAIN == "No module found for toolchain name"

----------------------------------------------------------------------------
(* The consistency check of Toolchain.prepare *)

\* the characters of a string
Chars(str) == { SubSeq(str, i, i) : i \in 1..Len(str) }

Range(seq) == { seq[i] : i \in 1..Len(seq) }

\* "for y in value": the elements of a list, the characters of a string
Iterate(value) == IF value.isList THEN Range(value.items) ELSE Chars(value.items[1])

\* Toolchain.is_required: True for every element, unless a subclass overrides it
is_required(mod_name) == mod_name \notin optional

\* set([mod['name'] for mod in self.toolchain_dependencies])
toolchain_module_deps(tcdeps) == { tcdeps[i].name : i \in 1..Len(tcdeps) }

\* variant: an optional element is dropped even when the loaded module uses it
toolchain_elements_mod_names_required_only(tcdeps) ==
    LET all == UNION { Iterate(module_names[x]) : x \in DOMAIN module_names }
        own == { x \in all : ~(x = name) }
    IN { mod_name \in own : is_required(mod_name) }

\* variant: the toolchain's own name is kept among the elements
toolchain_elements_mod_names_with_own(tcdeps) ==
    LET all == UNION { Iterate(module_names[x]) : x \in DOMAIN module_names }
    IN { mod_name \in all :
           ~(~is_required(mod_name) /\ mod_name \notin toolchain_module_deps(tcdeps)) }

\* the names of the *_MODULE_NAME attributes, without the toolchain's name and
\* without the optional elements the loaded module does not use
toolchain_elements_mod_names(tcdeps) ==
    LET all == UNION { Iterate(module_names[x]) : x \in DOMAIN module_names }
        own == { x \in all : ~(x = name) }
    IN { mod_name \in own :
           ~(~is_required(mod_name) /\ mod_name \notin toolchain_module_deps(tcdeps)) }

\* TRUE when the check logs "do not match"
Mismatch(tcdeps) == toolchain_module_deps(tcdeps) # toolchain_elements_mod_names(tcdeps)

\* what Modules().dependencies_for(name, version, depth=0) may report
DepsForResults ==
    { <<>>,
      << [name |-> "OpenMPI", version |-> "1.6-GCC-4.7"] >>,
      << [name |-> "OpenMPI", version |-> "1.6-GCC-4.7"],
         [name |-> "zlib", version |-> "1.2.8"] >> }

----------------------------------------------------------------------------
(* Toolchain._add_dependency_variables, generate_vars, _setenv_variables *)

E_NO_ROOT == "get_software_root software root was not found in environment"
E_LEGACY_LIST == "_setenv_variables: using commas-separated list"

\* "for p in extra: if not p in paths: paths.append(p)"
RECURSIVE extend(_, _)
extend(paths_, extra) ==
    IF extra = <<>> THEN paths_
    ELSE extend(IF Head(extra) \in Range(paths_) THEN paths_
                ELSE Append(paths_, Head(extra)),
                Tail(extra))

\* variant: lib64 is searched in 32-bit mode too
ld_paths_always_lib64(ld) == extend(<<"lib64", "lib">>, ld)

\* the library and include subdirectories, with the caller's extras (an
\* argument left at None is the empty list)
ld_paths(ld) ==
    extend(IF ~option32bit THEN <<"lib64", "lib">> ELSE <<"lib">>, ld)

cpp_paths(cpp) == extend(<<"include">>, cpp)

\* get_software_root(name): the root the environment holds, None when the
\* EBROOT variable of the module is missing
software_root(n, missing) == IF n \in missing THEN None ELSE "/opt/" \o n

\* variables.append_subdirs(key, root, subdirs)
RECURSIVE append_subdirs(_, _, _, _)
append_subdirs(store, key, root, subdirs) ==
    IF subdirs = <<>> THEN store
    ELSE LET old == IF key \in DOMAIN store THEN store[key] ELSE <<>>
             frag == root \o "/" \o Head(subdirs)
             new == IF frag \in Range(old) THEN old ELSE Append(old, frag)
             store2 == [k \in DOMAIN store \cup {key} |-> IF k = key THEN new ELSE store[k]]
         IN append_subdirs(store2, key, root, Tail(subdirs))

\* variant: the roots are handled last to first
RECURSIVE append_roots_reversed(_, _, _, _)
append_roots_reversed(store, roots, cpp, ld) ==
    IF roots = <<>> THEN store
    ELSE append_roots_reversed(
           append_subdirs(append_subdirs(store, "CPPFLAGS", Last(roots), cpp),
                          "LDFLAGS", Last(roots), ld),
           SubSeq(roots, 1, Len(roots) - 1), cpp, ld)

\* the loop over the roots of _add_dependency_variables
RECURSIVE append_roots(_, _, _, _)
append_roots(store, roots, cpp, ld) ==
    IF roots = <<>> THEN store
    ELSE append_roots(
           append_subdirs(append_subdirs(store, "CPPFLAGS", Head(roots), cpp),
                          "LDFLAGS", Head(roots), ld),
           Tail(roots), cpp, ld)

\* the number of get_software_root calls made for a list of roots: the loop
\* of _get_software_multiple ends at the first root that is missing
Lookups(roots) ==
    IF \E i \in 1..Len(roots) : roots[i] = None
      THEN CHOOSE i \in 1..Len(roots) :
             roots[i] = None /\ \A j \in 1..(i - 1) : roots[j] # None
      ELSE Len(roots)

\* variant: each root is used as soon as it is found
_add_dependency_variables_eager(names, cpp, ld, missing) ==
    LET given == SelectSeq(names, LAMBDA n : n # None)
        deps == IF names = <<>> THEN [i \in 1..Len(dependencies) |-> dependencies[i]["name"]]
                ELSE given
        roots == [i \in 1..Len(deps) |-> software_root(deps[i], missing)]
        calls == [i \in 1..Lookups(roots) |->
                    Event("get_software_root", << <<deps[i], roots[i]>> >>)]
        found == SelectSeq(SubSeq(roots, 1, Lookups(roots)), LAMBDA r : r # None)
    IN [variables |-> append_roots(variables, found, cpp_paths(cpp), ld_paths(ld)),
        error |-> IF \E i \in 1..Len(roots) : roots[i] = None THEN E_NO_ROOT ELSE "",
        calls |-> calls]

\* _add_dependency_variables(names, cpp, ld): the store afterwards, the
\* exception raised and the software-root lookups made (an argument left at
\* None is the empty list)
_add_dependency_variables(names, cpp, ld, missing) ==
    LET given == SelectSeq(names, LAMBDA n : n # None)
        deps == IF names = <<>> THEN [i \in 1..Len(dependencies) |-> dependencies[i]["name"]]
                ELSE given
        roots == [i \in 1..Len(deps) |-> software_root(deps[i], missing)]
        calls == [i \in 1..Lookups(roots) |->
                    Event("get_software_root", << <<deps[i], roots[i]>> >>)]
    IN IF \E i \in 1..Len(roots) : roots[i] = None
         THEN [variables |-> variables, error |-> E_NO_ROOT, calls |-> calls]
         ELSE [variables |-> append_roots(variables, roots, cpp_paths(cpp), ld_paths(ld)),
               error |-> "", calls |-> calls]

\* the arguments and the subdirectory lists of a flag assembly
Paths(cpp, ld) ==
    << [cpp |-> cpp, ld |-> ld, cpp_paths |-> cpp_paths(cpp), ld_paths |-> ld_paths(ld)] >>

\* str(v) of a variable: its fragments joined by blanks
RECURSIVE Str(_)
Str(frags) ==
    IF frags = <<>> THEN ""
    ELSE IF Len(frags) = 1 THEN frags[1]
    ELSE frags[1] \o " " \o Str(Tail(frags))

\* generate_vars: self.vars
generate_vars(store) == [none |-> FALSE, items |-> [k \in DOMAIN store |-> Str(store[k])]]

\* the donotsetlist of _setenv_variables
donotsetlist(donotset) == IF donotset.kind = "list" THEN Range(donotset.names) ELSE {}

\* variant: the alias of a skipped variable is still set
RECURSIVE setvars_alias_unskipped(_, _, _)
setvars_alias_unskipped(items, order, skip) ==
    IF order = <<>> THEN <<>>
    ELSE LET key == Head(order)
             rest == setvars_alias_unskipped(items, Tail(order), skip)
         IN IF key \in skip THEN << <<"EBVAR" \o key, items[key]>> >> \o rest
            ELSE << <<key, items[key]>>, <<"EBVAR" \o key, items[key]>> >> \o rest

\* the setvar calls of _setenv_variables over the keys in the given order
RECURSIVE setvars(_, _, _)
setvars(items, order, skip) ==
    IF order = <<>> THEN <<>>
    ELSE LET key == Head(order)
             rest == setvars(items, Tail(order), skip)
         IN IF key \in skip THEN rest
            ELSE << <<key, items[key]>>, <<"EBVAR" \o key, items[key]>> >> \o rest

\* the environment after a list of setvar calls
RECURSIVE setvar(_, _)
setvar(env, writes) ==
    IF writes = <<>> THEN env
    ELSE LET w == Head(writes)
         IN setvar([k \in DOMAIN env \cup {w[1]} |-> IF k = w[1] THEN w[2] ELSE env[k]],
                   Tail(writes))

\* the orders in which a dict may hand out its keys
Orders(keys) ==
    { o \in [1..Cardinality(keys) -> keys] : Range(o) = keys }

----------------------------------------------------------------------------

Init ==
    /\ \E tc \in Toolchains :
          /\ name = tc.name
          /\ version = tc.version
          /\ module_names = tc.module_names
          /\ optional = tc.optional
    /\ option32bit \in BOOLEAN
    /\ modules \in BackendConfigs
    /\ dependencies = <<>>
    /\ toolchain_dependencies = <<>>
    /\ variables = <<>>
    /\ vars = [none |-> TRUE, items |-> <<>>]
    /\ environ = <<>>
    /\ pending = <<>>
    /\ loaded = <<>>
    /\ pc = "idle"
    /\ onlymod = OnlymodNone
    /\ error = ""
    /\ mismatch = FALSE
    /\ resolved = <<>>
    /\ added = <<>>
    /\ log = <<>>
    /\ paths = <<>>
    /\ prepares = 0

\* a direct call of get_dependency_version
GetDependencyVersion(dep) ==
    /\ pc = "idle"
    /\ LET r == get_dependency_version(dep)
       IN /\ resolved' = << [dep |-> dep, ok |-> r.ok, value |-> r.value,
                             matches |-> r.matches] >>
          /\ log' = r.calls
          /\ error' = IF r.ok THEN "" ELSE E_NO_VERSION
    /\ added' = <<>>
    /\ UNCHANGED <<name, version, module_names, optional, paths, option32bit, modules, dependencies,
                   toolchain_dependencies, variables, vars, environ, pending, loaded,
                   pc, onlymod, mismatch, prepares>>

\* a call of add_dependencies
AddDependencies(input) ==
    /\ pc = "idle"
    /\ LET r == add_dependencies(dependencies, input, 1)
       IN /\ Len(r.deps) <= MaxDeps
          /\ dependencies' = r.deps
          /\ error' = r.error
          /\ log' = r.calls
    /\ added' = << [input |-> input, before |-> dependencies] >>
    /\ resolved' = <<>>
    /\ UNCHANGED <<name, version, module_names, optional, paths, option32bit, modules,
                   toolchain_dependencies, variables, vars, environ, pending, loaded,
                   pc, onlymod, mismatch, prepares>>

\* a (name, version) pair per dependency, as add_module takes them
AsModules(deps) == [i \in 1..Len(deps) |-> <<deps[i]["name"], deps[i]["tc"]>>]

\* prepare(onlymod) up to the existence check (lines 283-284)
Prepare(om) ==
    /\ pc \in {"idle", "done", "failed"}
    /\ prepares < MaxPrepares
    /\ prepares' = prepares + 1
    /\ onlymod' = om
    /\ LET r == _toolchain_exists
       IN /\ log' = r.calls
          /\ IF r.result
               THEN pc' = "exists" /\ error' = ""
               ELSE pc' = "failed" /\ error' = E_NO_TOOLCHAIN
    /\ mismatch' = FALSE
    /\ resolved' = <<>>
    /\ added' = <<>>
    /\ UNCHANGED <<name, version, module_names, optional, paths, option32bit, modules, dependencies,
                   toolchain_dependencies, variables, vars, environ, pending, loaded>>

\* variant: the dependencies are loaded whatever the version is
PrepareDummy_always_loads ==
    /\ pc = "exists"
    /\ name = DUMMY_NAME
    /\ pending' = AsModules(dependencies)
    /\ loaded' = AsModules(dependencies)
    /\ log' = log \o << Event("add_module", AsModules(dependencies)),
                        Event("load", <<>>) >>
    /\ pc' = "done"
    /\ UNCHANGED <<name, version, module_names, optional, paths, option32bit, modules, dependencies,
                   toolchain_dependencies, variables, vars, environ, onlymod, error,
                   mismatch, resolved, added, prepares>>

\* variant: the dummy toolchain's own module is added before its dependencies
PrepareDummy_adds_toolchain ==
    /\ pc = "exists"
    /\ name = DUMMY_NAME
    /\ IF version = DUMMY_VERSION
         THEN UNCHANGED <<pending, loaded, log>>
         ELSE /\ pending' = << <<name, version>> >> \o AsModules(dependencies)
              /\ loaded' = pending'
              /\ log' = log \o << Event("add_module", << <<name, version>> >>),
                                  Event("add_module", AsModules(dependencies)),
                                  Event("load", <<>>) >>
    /\ pc' = "done"
    /\ UNCHANGED <<name, version, module_names, optional, paths, option32bit, modules, dependencies,
                   toolchain_dependencies, variables, vars, environ, onlymod, error,
                   mismatch, resolved, added, prepares>>

\* the dummy toolchain (lines 286-294)
PrepareDummy ==
    /\ pc = "exists"
    /\ name = DUMMY_NAME
    /\ IF version = DUMMY_VERSION
         THEN UNCHANGED <<pending, loaded, log>>
         ELSE /\ pending' = AsModules(dependencies)
              /\ loaded' = AsModules(dependencies)
              /\ log' = log \o << Event("add_module", AsModules(dependencies)),
                                  Event("load", <<>>) >>
    /\ pc' = "done"
    /\ UNCHANGED <<name, version, module_names, optional, paths, option32bit, modules, dependencies,
                   toolchain_dependencies, variables, vars, environ, onlymod, error,
                   mismatch, resolved, added, prepares>>

\* variant: every batch of modules is loaded as soon as it is added
PrepareLoad_per_batch ==
    /\ pc = "exists"
    /\ name # DUMMY_NAME
    /\ pending' = << <<name, version>> >> \o AsModules(dependencies)
    /\ loaded' = pending'
    /\ log' = log \o << Event("add_module", << <<name, version>> >>),
                        Event("load", <<>>),
                        Event("add_module", AsModules(dependencies)),
                        Event("load", <<>>) >>
    /\ pc' = "loaded"
    /\ UNCHANGED <<name, version, module_names, optional, paths, option32bit, modules, dependencies,
                   toolchain_dependencies, variables, vars, environ, onlymod, error,
                   mismatch, resolved, added, prepares>>

\* loading the toolchain and the dependencies (lines 296-300)
PrepareLoad ==
    /\ pc = "exists"
    /\ name # DUMMY_NAME
    /\ pending' = << <<name, version>> >> \o AsModules(dependencies)
    /\ loaded' = pending'
    /\ log' = log \o << Event("add_module", << <<name, version>> >>),
                        Event("add_module", AsModules(dependencies)),
                        Event("load", <<>>) >>
    /\ pc' = "loaded"
    /\ UNCHANGED <<name, version, module_names, optional, paths, option32bit, modules, dependencies,
                   toolchain_dependencies, variables, vars, environ, onlymod, error,
                   mismatch, resolved, added, prepares>>

\* the direct toolchain dependencies (lines 302-304)
PrepareToolchainDeps(tcdeps) ==
    /\ pc = "loaded"
    /\ toolchain_dependencies' = tcdeps
    /\ log' = Append(log, Event("dependencies_for", << <<name, version>> >>))
    /\ pc' = "deps"
    /\ UNCHANGED <<name, version, module_names, optional, paths, option32bit, modules, dependencies,
                   variables, vars, environ, pending, loaded, onlymod, error,
                   mismatch, resolved, added, prepares>>

\* variant: a mismatch ends prepare with an exception
PrepareVerify_fatal ==
    /\ pc = "deps"
    /\ mismatch' = Mismatch(toolchain_dependencies)
    /\ IF mismatch'
         THEN /\ log' = Append(log, Event("verify", <<>>))
              /\ pc' = "failed"
              /\ error' = "toolchain definition do not match"
         ELSE /\ log' = log \o << Event("verify", <<>>), Event("set_variables", <<>>) >>
              /\ pc' = "variables"
              /\ error' = error
    /\ UNCHANGED <<name, version, module_names, optional, paths, option32bit, modules, dependencies,
                   toolchain_dependencies, variables, vars, environ, pending, loaded,
                   onlymod, resolved, added, prepares>>

\* the consistency check (lines 306-326) and set_variables (line 329)
PrepareVerify ==
    /\ pc = "deps"
    /\ mismatch' = Mismatch(toolchain_dependencies)
    /\ log' = log \o << Event("verify", <<>>), Event("set_variables", <<>>) >>
    /\ pc' = "variables"
    /\ UNCHANGED <<name, version, module_names, optional, paths, option32bit, modules, dependencies,
                   toolchain_dependencies, variables, vars, environ, pending, loaded,
                   onlymod, error, resolved, added, prepares>>

\* variant: the dependency flags are assembled in module-only mode too
PrepareOnlymod_assembles ==
    /\ pc = "variables"
    /\ onlymod.kind = "True"
    /\ LET r == _add_dependency_variables(<<>>, <<>>, <<>>, {})
       IN /\ variables' = r.variables
          /\ vars' = generate_vars(r.variables)
          /\ log' = log \o << Event("_add_dependency_variables", <<>>) >> \o r.calls
                        \o << Event("generate_vars", <<>>) >>
    /\ pc' = "done"
    /\ UNCHANGED <<name, version, module_names, optional, paths, option32bit, modules, dependencies,
                   toolchain_dependencies, environ, pending, loaded,
                   onlymod, error, mismatch, resolved, added, prepares>>

\* onlymod == True: generate_vars only (lines 333-335)
PrepareOnlymod ==
    /\ pc = "variables"
    /\ onlymod.kind = "True"
    /\ vars' = generate_vars(variables)
    /\ log' = Append(log, Event("generate_vars", <<>>))
    /\ pc' = "done"
    /\ UNCHANGED <<name, version, module_names, optional, paths, option32bit, modules, dependencies,
                   toolchain_dependencies, variables, environ, pending, loaded,
                   onlymod, error, mismatch, resolved, added, prepares>>

\* _add_dependency_variables and generate_vars (lines 340-341)
PrepareVariables(missing) ==
    /\ pc = "variables"
    /\ onlymod.kind # "True"
    /\ LET r == _add_dependency_variables(<<>>, <<>>, <<>>, missing)
           stage == << Event("_add_dependency_variables", <<>>) >> \o r.calls
       IN /\ variables' = r.variables
          /\ error' = r.error
          /\ IF r.error = ""
               THEN /\ vars' = generate_vars(r.variables)
                    /\ log' = log \o stage \o << Event("generate_vars", <<>>) >>
                    /\ pc' = "generated"
               ELSE /\ vars' = vars
                    /\ log' = log \o stage
                    /\ pc' = "failed"
    /\ paths' = Paths(<<>>, <<>>)
    /\ UNCHANGED <<name, version, module_names, optional, option32bit, modules,
                   dependencies, toolchain_dependencies, environ, pending, loaded,
                   onlymod, mismatch, resolved, added, prepares>>

\* variant: the comma-separated string is rejected after the variables are set
PrepareSetenv_late_reject(order) ==
    /\ pc = "generated"
    /\ LET writes == setvars(vars.items, order, donotsetlist(onlymod))
       IN /\ environ' = setvar(environ, writes)
          /\ log' = log \o << Event("_setenv_variables", <<>>) >>
                        \o [i \in 1..Len(writes) |-> Event("setvar", <<writes[i]>>)]
    /\ IF onlymod.kind = "str"
         THEN error' = E_LEGACY_LIST /\ pc' = "failed"
         ELSE error' = error /\ pc' = "done"
    /\ UNCHANGED <<name, version, module_names, optional, paths, option32bit, modules, dependencies,
                   toolchain_dependencies, variables, vars, pending, loaded,
                   onlymod, mismatch, resolved, added, prepares>>

\* variant: the comma-separated string is split into the names it lists
PrepareSetenv_split(order) ==
    /\ pc = "generated"
    /\ LET skip == IF onlymod.kind \in {"str", "list"} THEN Range(onlymod.names) ELSE {}
           writes == setvars(vars.items, order, skip)
       IN /\ environ' = setvar(environ, writes)
          /\ log' = log \o << Event("_setenv_variables", <<>>) >>
                        \o [i \in 1..Len(writes) |-> Event("setvar", <<writes[i]>>)]
    /\ pc' = "done"
    /\ UNCHANGED <<name, version, module_names, optional, paths, option32bit, modules, dependencies,
                   toolchain_dependencies, variables, vars, pending, loaded,
                   onlymod, error, mismatch, resolved, added, prepares>>

\* _setenv_variables(onlymod) (line 342)
PrepareSetenv(order) ==
    /\ pc = "generated"
    /\ IF onlymod.kind = "str"
         THEN /\ error' = E_LEGACY_LIST
              /\ pc' = "failed"
              /\ log' = Append(log, Event("_setenv_variables", <<>>))
              /\ UNCHANGED environ
         ELSE LET writes == setvars(vars.items, order, donotsetlist(onlymod))
              IN /\ environ' = setvar(environ, writes)
                 /\ log' = log \o << Event("_setenv_variables", <<>>) >>
                               \o [i \in 1..Len(writes) |-> Event("setvar", <<writes[i]>>)]
                 /\ pc' = "done"
                 /\ UNCHANGED error
    /\ UNCHANGED <<name, version, module_names, optional, paths, option32bit, modules, dependencies,
                   toolchain_dependencies, variables, vars, pending, loaded,
                   onlymod, mismatch, resolved, added, prepares>>

Next ==
    \/ \E dep \in ResolveUniverse : GetDependencyVersion(dep)
    \/ \E input \in DepLists : AddDependencies(input)
    \/ \E om \in Onlymods : Prepare(om)
    \/ PrepareDummy
    \/ PrepareLoad
    \/ \E tcdeps \in DepsForResults : PrepareToolchainDeps(tcdeps)
    \/ PrepareVerify
    \/ PrepareOnlymod
    \/ \E missing \in SUBSET DepNames : PrepareVariables(missing)
    \/ \E order \in Orders(DOMAIN vars.items) : PrepareSetenv(order)

Spec == Init /\ [][Next]_vars_all

----------------------------------------------------------------------------
(* _add_dependency_variables called by a subclass with its own arguments *)

\* a call _add_dependency_variables(names, cpp, ld)
AddDependencyVariables(names, cpp, ld, missing) ==
    /\ pc = "idle"
    /\ LET r == _add_dependency_variables(names, cpp, ld, missing)
       IN /\ variables' = r.variables
          /\ error' = r.error
          /\ log' = << Event("_add_dependency_variables", <<>>) >> \o r.calls
          /\ pc' = IF r.error = "" THEN "returned" ELSE "failed"
    /\ paths' = Paths(cpp, ld)
    /\ resolved' = <<>>
    /\ added' = <<>>
    /\ UNCHANGED <<name, version, module_names, optional, option32bit, modules,
                   dependencies, toolchain_dependencies, vars, environ, pending,
                   loaded, onlymod, mismatch, prepares>>

\* a toolchain of the base class, right after construction
InitFlags == Init /\ module_names = <<>> /\ modules = ModuleSet

NextFlags ==
    \E names \in NameArgs, cpp \in CppExtras, ld \in LdExtras, missing \in SUBSET DepNames :
        AddDependencyVariables(names, cpp, ld, missing)

SpecFlags == InitFlags /\ [][NextFlags]_vars_all

----------------------------------------------------------------------------
(* Claims *)

\* the last get_dependency_version call, when the last operation was one
Resolved == resolved[1]

\* the last add_dependencies call, when the last operation was one
Added == added[1]

\* the operations logged so far by the running (or last) prepare call
LogOps == { log[i].op : i \in 1..Len(log) }

\* the index of the first log entry of the given operation, 0 when none
FirstOp(op) ==
    IF op \in LogOps THEN CHOOSE i \in 1..Len(log) :
                            log[i].op = op /\ \A j \in 1..(i - 1) : log[j].op # op
    ELSE 0

\* C1: for a dependency without a version, when available() reports matches,
\* get_dependency_version returns the version of the last match.
C1_ReturnsLastMatch ==
    (/\ Len(resolved) > 0
     /\ "version" \notin DOMAIN Resolved.dep
     /\ Len(Resolved.matches) > 0)
    => (/\ Resolved.ok
        /\ Resolved.value = Last(Resolved.matches)[2])

\* C2: every registered dependency has a tc that is a real identifier, and
\* the module (name, tc) exists in the backend.
C2_TcPopulatedAndVerified ==
    \A i \in 1..Len(dependencies) :
        /\ "tc" \in DOMAIN dependencies[i]
        /\ dependencies[i]["tc"] # None
        /\ dependencies[i]["tc"] # ""
        /\ <<dependencies[i]["name"], dependencies[i]["tc"]>> \in modules

C2_Witness ==
    /\ Len(added) > 0
    /\ error # ""
    /\ \E i, j \in 1..Len(dependencies) :
          /\ "version" \in DOMAIN dependencies[i]
          /\ dependencies[j] = MkDep("zlib", Absent, Absent, FALSE, "1.2.8", Absent)

\* TRUE for a dependency without version, tc and tk for which the backend
\* has no module of its name
Unmatched(dep) ==
    /\ DOMAIN dep \cap {"version", "tc", "tk"} = {}
    /\ \A m \in modules : m[1] # dep["name"]

\* C3: resolving a dependency without a version fails when the backend has no
\* match, no identifier is returned, and add_dependencies appends neither that
\* dependency nor a later one.
C3_NoMatchFails ==
    /\ (/\ Len(resolved) > 0
        /\ "version" \notin DOMAIN Resolved.dep
        /\ Resolved.matches = <<>>)
         => (~Resolved.ok /\ error = E_NO_VERSION)
    /\ Len(added) > 0 =>
         \A k \in 1..Len(Added.input) :
            Unmatched(Added.input[k]) =>
               /\ Len(dependencies) < Len(Added.before) + k
               /\ error # ""
               /\ (Len(dependencies) = Len(Added.before) + k - 1 => error = E_NO_VERSION)

C3_Witness ==
    /\ Len(added) > 0
    /\ Len(Added.input) = 2
    /\ Unmatched(Added.input[2])
    /\ Len(dependencies) = Len(Added.before) + 1
    /\ error = E_NO_VERSION

\* C4: on a toolchain N/V that is not the dummy one, a dependency with a
\* version resolves to version + "-N-V" + suffix, to version + suffix when it
\* is marked toolchain-independent, and the backend is not queried.
C4_ExplicitVersion ==
    (/\ Len(resolved) > 0
     /\ "version" \in DOMAIN Resolved.dep
     /\ name # DUMMY_NAME)
    => LET dep == Resolved.dep
           sfx == IF "suffix" \in DOMAIN dep THEN dep["suffix"] ELSE ""
           independent == DUMMY_NAME \in DOMAIN dep
       IN /\ Resolved.ok
          /\ log = <<>>
          /\ Resolved.value =
               IF independent THEN dep["version"] \o sfx
               ELSE dep["version"] \o "-" \o name \o "-" \o version \o sfx
          /\ (name = "GCC" /\ version = "4.7"
              /\ dep = MkDep("OpenMPI", "1.6", Absent, FALSE, Absent, Absent))
             => Resolved.value = "1.6-GCC-4.7"

C4_Witness ==
    /\ Len(resolved) > 0
    /\ name = "GCC"
    /\ Resolved.dep = MkDep("OpenMPI", "1.6", "-x", FALSE, Absent, Absent)
    /\ Resolved.value = "1.6-GCC-4.7-x"

\* C5 as stated: on the dummy toolchain with a version of its own, a
\* dependency with a version resolves to version + suffix.
C5_NoToolchainPart ==
    (/\ Len(resolved) > 0
     /\ "version" \in DOMAIN Resolved.dep
     /\ name = DUMMY_NAME /\ version # DUMMY_VERSION)
    => Resolved.value =
         Resolved.dep["version"] \o Get(Resolved.dep, "suffix", "")

\* C5 amended: on the dummy toolchain with a version V of its own, a
\* dependency with a version resolves to version + V + suffix (the name of
\* the toolchain and the "-" separators are left out), and to version +
\* suffix only when it is marked toolchain-independent.
C5_VersionOnlySuffix ==
    (/\ Len(resolved) > 0
     /\ "version" \in DOMAIN Resolved.dep
     /\ name = DUMMY_NAME /\ version # DUMMY_VERSION)
    => LET dep == Resolved.dep
           sfx == IF "suffix" \in DOMAIN dep THEN dep["suffix"] ELSE ""
       IN /\ Resolved.ok
          /\ log = <<>>
          /\ Resolved.value =
               IF DUMMY_NAME \in DOMAIN dep THEN dep["version"] \o sfx
               ELSE dep["version"] \o version \o sfx

C5_Witness ==
    /\ Len(resolved) > 0
    /\ name = DUMMY_NAME /\ version = "4.7"
    /\ Resolved.dep = MkDep("OpenMPI", "1.6", Absent, FALSE, Absent, Absent)
    /\ Resolved.value = "1.64.7"

\* C6: prepare on the dummy toolchain with the dummy version calls no backend
\* operation, writes no environment variable and ends without any generated
\* variable, whatever onlymod and the registered dependencies are.
C6_DummyDoesNothing ==
    (/\ name = DUMMY_NAME /\ version = DUMMY_VERSION
     /\ prepares > 0)
    => /\ pc \in {"exists", "done"}
       /\ error = ""
       /\ log = <<>>
       /\ pending = <<>> /\ loaded = <<>>
       /\ environ = <<>>
       /\ variables = <<>>
       /\ (vars.none \/ vars.items = <<>>)

C6_Witness ==
    /\ name = DUMMY_NAME /\ version = DUMMY_VERSION
    /\ pc = "done"
    /\ Len(dependencies) = 2
    /\ onlymod.kind = "False"

\* the stages that come before the environment is written
StagesBeforeSetenv ==
    << "exists", "add_module", "load", "dependencies_for", "verify",
       "set_variables", "_add_dependency_variables", "generate_vars",
       "_setenv_variables" >>

\* C7: an environment variable is written only after every earlier stage of
\* prepare has completed, in the order of the code; a prepare call that
\* fails has written none.
C7_EnvWrittenLast ==
    /\ [](/\ \A i \in 1..Len(log) :
               log[i].op = "setvar" =>
                  /\ \A s \in 1..Len(StagesBeforeSetenv) :
                        /\ FirstOp(StagesBeforeSetenv[s]) > 0
                        /\ FirstOp(StagesBeforeSetenv[s]) < i
                        /\ s > 1 => FirstOp(StagesBeforeSetenv[s - 1])
                                      < FirstOp(StagesBeforeSetenv[s])
                  /\ pc = "done"
          /\ pc = "failed" => "setvar" \notin LogOps)
    /\ [][environ' # environ =>
            /\ pc = "generated" /\ pc' = "done" /\ error' = ""
            /\ "setvar" \in { log'[i].op : i \in 1..Len(log') }]_vars_all

C7_Witness ==
    /\ pc = "done"
    /\ "setvar" \in LogOps
    /\ "LDFLAGS" \in DOMAIN environ
    /\ "EBVARLDFLAGS" \in DOMAIN environ

\* C8: prepare on a toolchain that is not the dummy one and has no module
\* fails with E_NO_TOOLCHAIN after the exists query alone, with the variable
\* store, toolchain_dependencies, the environment and the backend's module
\* list untouched; a dummy-named toolchain passes without a backend query.
C8_ToolchainNotFound ==
    /\ [](/\ (pc = "failed" /\ error = E_NO_TOOLCHAIN)
               => /\ name # DUMMY_NAME
                  /\ log = << Event("exists", << <<name, version>> >>) >>
          /\ (prepares > 0 /\ name # DUMMY_NAME /\ <<name, version>> \notin modules)
               => (pc = "failed" /\ error = E_NO_TOOLCHAIN)
          /\ (pc = "exists" /\ name = DUMMY_NAME) => log = <<>>)
    /\ [][(prepares' # prepares) =>
            /\ name = DUMMY_NAME => pc' = "exists"
            /\ pc' = "failed" =>
                 UNCHANGED <<variables, vars, toolchain_dependencies, environ,
                             pending, loaded, dependencies>>]_vars_all

C8_Witness ==
    /\ pc = "failed"
    /\ error = E_NO_TOOLCHAIN
    /\ Len(dependencies) > 0

\* C9: a mismatch found by the consistency check is recorded and prepare goes
\* on: it never fails because of the mismatch, set_variables follows the
\* check, and the later stages run as they do without a mismatch.
C9_MismatchNotFatal ==
    /\ [](/\ pc = "failed" => error \in {E_NO_TOOLCHAIN, E_NO_ROOT, E_LEGACY_LIST}
          /\ "verify" \in LogOps =>
                /\ mismatch = Mismatch(toolchain_dependencies)
                /\ "set_variables" \in LogOps)
    /\ [][pc = "deps" => pc' = "variables"]_vars_all

C9_Witness ==
    /\ mismatch
    /\ pc = "done"
    /\ onlymod.kind = "None"
    /\ "EBVARCPPFLAGS" \in DOMAIN environ

\* the names the *_MODULE_NAME attributes hold, a string counted as one name
DeclaredNames ==
    UNION { Range(module_names[x].items) : x \in DOMAIN module_names } \ {name}

ReportedNames == { toolchain_dependencies[i].name : i \in 1..Len(toolchain_dependencies) }

\* C10 as stated: no mismatch is reported when the names of the module-name
\* attributes (a list of names or a single name each), without the
\* toolchain's name, are exactly the names the backend reports.
C10_EqualSetsMatch ==
    ("verify" \in LogOps /\ DeclaredNames = ReportedNames) => ~mismatch

\* C10 amended: no mismatch is reported when every module-name attribute is a
\* list of names and the names of these lists, without the toolchain's name,
\* are exactly the names the backend reports.
C10_EqualListsMatch ==
    (/\ "verify" \in LogOps
     /\ \A x \in DOMAIN module_names : module_names[x].isList
     /\ DeclaredNames = ReportedNames)
    => ~mismatch

C10_Witness ==
    /\ "verify" \in LogOps
    /\ DOMAIN module_names # {}
    /\ \A x \in DOMAIN module_names : module_names[x].isList
    /\ ReportedNames = {"OpenMPI"}
    /\ ~mismatch

\* the (key, value) pairs of the setvar calls of the running (or last) prepare
Written == { log[i].arg[1] : i \in { j \in 1..Len(log) : log[j].op = "setvar" } }

WrittenKeys == { w[1] : w \in Written }

\* TRUE when _setenv_variables has run to its end
SetenvDone == pc = "done" /\ "_setenv_variables" \in LogOps

\* K and its alias are both set, to the value vars holds for K, and to no other
BothSet(K) ==
    /\ <<K, vars.items[K]>> \in Written
    /\ <<"EBVAR" \o K, vars.items[K]>> \in Written
    /\ \A w \in Written : w[1] \in {K, "EBVAR" \o K} => w[2] = vars.items[K]

NeitherSet(K) == K \notin WrittenKeys /\ ("EBVAR" \o K) \notin WrittenKeys

\* C11 as stated: with the skip collection given as a list or as a set, a
\* generated variable that is not skipped is set together with its alias to
\* the same value, and a skipped one is set under neither name.
C11_SkipListOrSet ==
    (SetenvDone /\ onlymod.kind \in {"list", "set"})
    => \A K \in DOMAIN vars.items :
          IF K \in Range(onlymod.names) THEN NeitherSet(K) ELSE BothSet(K)

\* C11 amended: with the skip collection given as a list, a generated
\* variable that is not skipped is set together with its alias to the same
\* value, and a skipped one is set under neither name; a skip collection
\* given as a set is not looked at, every generated variable is then set
\* together with its alias. An alias is never set without its variable, nor
\* the reverse.
C11_SkipList ==
    SetenvDone
    => /\ onlymod.kind = "list" =>
            \A K \in DOMAIN vars.items :
               IF K \in Range(onlymod.names) THEN NeitherSet(K) ELSE BothSet(K)
       /\ onlymod.kind = "set" => \A K \in DOMAIN vars.items : BothSet(K)
       /\ \A K \in DOMAIN vars.items : BothSet(K) \/ NeitherSet(K)
       /\ WrittenKeys \subseteq
            DOMAIN vars.items \cup { "EBVAR" \o K : K \in DOMAIN vars.items }

C11_Witness ==
    /\ SetenvDone
    /\ onlymod.kind = "list"
    /\ DOMAIN vars.items = {"CPPFLAGS", "LDFLAGS"}
    /\ WrittenKeys = {"CPPFLAGS", "EBVARCPPFLAGS"}

\* the (name, root) pairs of the software-root lookups of the running (or
\* last) operation, in order
RootLookups ==
    LET at == SelectSeq([i \in 1..Len(log) |-> i],
                        LAMBDA i : log[i].op = "get_software_root")
    IN [k \in 1..Len(at) |-> log[at[k]].arg[1]]

\* C12: when the software root of a dependency is missing, the flag assembly
\* fails with E_NO_ROOT and the variable store is as it was before the call,
\* also when the roots of earlier dependencies were found.
C12_MissingRootAppendsNothing ==
    /\ [](/\ (\E k \in 1..Len(RootLookups) : RootLookups[k][2] = None)
               <=> error = E_NO_ROOT
          /\ error = E_NO_ROOT => pc = "failed"
          /\ \A k \in 1..Len(RootLookups) :
                /\ k <= Len(dependencies)
                /\ RootLookups[k][1] = dependencies[k]["name"]
                /\ RootLookups[k][2] = None => k = Len(RootLookups))
    /\ [][(pc = "variables" /\ error' = E_NO_ROOT) =>
            UNCHANGED <<variables, vars, environ>>]_vars_all

C12_Witness ==
    /\ error = E_NO_ROOT
    /\ Len(RootLookups) = 2
    /\ RootLookups[1][2] # None
    /\ RootLookups[2][2] = None
    /\ variables = <<>>

\* the distinct elements of a sequence, in the order of their first occurrence
RECURSIVE Distinct(_)
Distinct(seq) ==
    IF seq = <<>> THEN <<>>
    ELSE LET init == Distinct(SubSeq(seq, 1, Len(seq) - 1))
         IN IF Last(seq) \in Range(init) THEN init ELSE Append(init, Last(seq))

\* root/subdir for every root in order and, within a root, every subdirectory
\* in order
RECURSIVE Fragments(_, _)
Fragments(roots, subdirs) ==
    IF roots = <<>> THEN <<>>
    ELSE [i \in 1..Len(subdirs) |-> Head(roots) \o "/" \o subdirs[i]]
           \o Fragments(Tail(roots), subdirs)

\* the position of an element in a sequence, 0 when it is not in it
IndexOf(seq, x) ==
    IF x \in Range(seq) THEN CHOOSE i \in 1..Len(seq) : seq[i] = x ELSE 0

\* TRUE when the flag assembly of prepare has run to its end
FlagsDone ==
    /\ "_add_dependency_variables" \in LogOps
    /\ error # E_NO_ROOT

\* C13: after the flag assembly CPPFLAGS and LDFLAGS hold, for the registered
\* dependencies in their order, the fragments root/subdir of each root, and
\* within a root lib64 before lib (lib alone in 32-bit mode).
C13_OrderPreserving ==
    FlagsDone =>
       LET roots == [k \in 1..Len(dependencies) |-> "/opt/" \o dependencies[k]["name"]]
           libs == IF option32bit THEN <<"lib">> ELSE <<"lib64", "lib">>
           LD == IF "LDFLAGS" \in DOMAIN variables THEN variables["LDFLAGS"] ELSE <<>>
           CPP == IF "CPPFLAGS" \in DOMAIN variables THEN variables["CPPFLAGS"] ELSE <<>>
       IN /\ LD = Distinct(Fragments(roots, libs))
          /\ CPP = Distinct(Fragments(roots, <<"include">>))
          /\ \A i, j \in 1..Len(roots) :
                (i < j /\ roots[i] # roots[j] /\ roots[j] \notin Range(SubSeq(roots, 1, i)))
                => \A a, b \in Range(libs) :
                      /\ IndexOf(LD, roots[i] \o "/" \o a) > 0
                      /\ IndexOf(LD, roots[i] \o "/" \o a) < IndexOf(LD, roots[j] \o "/" \o b)
                      /\ IndexOf(CPP, roots[i] \o "/include") > 0
                      /\ IndexOf(CPP, roots[i] \o "/include") < IndexOf(CPP, roots[j] \o "/include")
          /\ ~option32bit =>
                \A i \in 1..Len(roots) :
                   IndexOf(LD, roots[i] \o "/lib64") + 1 = IndexOf(LD, roots[i] \o "/lib")

C13_Witness ==
    /\ FlagsDone
    /\ Len(dependencies) = 2
    /\ dependencies[1]["name"] = "OpenMPI"
    /\ dependencies[2]["name"] = "zlib"
    /\ variables["LDFLAGS"] = << "/opt/OpenMPI/lib64", "/opt/OpenMPI/lib",
                                 "/opt/zlib/lib64", "/opt/zlib/lib" >>
    /\ variables["CPPFLAGS"] = << "/opt/OpenMPI/include", "/opt/zlib/include" >>

\* C14: the library subdirectories start with lib64, lib (lib alone in 32-bit
\* mode), lib is always among them, and the caller's extras follow the
\* defaults in their order, none of them twice.
C14_LibrarySubdirs ==
    Len(paths) > 0 =>
       LET p == paths[1]
           defaults == IF option32bit THEN <<"lib">> ELSE <<"lib64", "lib">>
       IN /\ SubSeq(p.ld_paths, 1, Len(defaults)) = defaults
          /\ "lib" \in Range(p.ld_paths)
          /\ (option32bit /\ "lib64" \notin Range(p.ld)) => "lib64" \notin Range(p.ld_paths)
          /\ p.ld_paths = Distinct(defaults \o p.ld)
          /\ p.cpp_paths = Distinct(<<"include">> \o p.cpp)
          /\ \A i, j \in 1..Len(p.ld_paths) : i # j => p.ld_paths[i] # p.ld_paths[j]

C14_Witness ==
    /\ Len(paths) > 0
    /\ option32bit
    /\ paths[1].ld = <<"lib32", "lib32">>
    /\ paths[1].ld_paths = <<"lib", "lib32">>

\* the calls prepare has made to the module backend after the existence check
BackendCalls ==
    SelectSeq(log, LAMBDA e : e.op \in {"add_module", "load", "dependencies_for"})

\* the backend calls of a whole non-dummy prepare
LoadThenQuery ==
    << Event("add_module", << <<name, version>> >>),
       Event("add_module", AsModules(dependencies)),
       Event("load", <<>>),
       Event("dependencies_for", << <<name, version>> >>) >>

\* C15: on the non-dummy path prepare adds the toolchain module, then the
\* registered dependencies, loads once, and only then asks for the direct
\* dependencies of the toolchain module; load is called once per prepare.
C15_SingleBatchLoad ==
    (name # DUMMY_NAME /\ prepares > 0) =>
        /\ pc = "exists" => BackendCalls = <<>>
        /\ pc = "loaded" => BackendCalls = SubSeq(LoadThenQuery, 1, 3)
        /\ (pc \in {"deps", "variables", "generated", "done"} \/ "verify" \in LogOps)
              => BackendCalls = LoadThenQuery
        /\ BackendCalls \in { SubSeq(LoadThenQuery, 1, n) : n \in {0, 3, 4} }
        /\ Cardinality({ i \in 1..Len(log) : log[i].op = "load" }) <= 1

C15_Witness ==
    /\ name # DUMMY_NAME
    /\ pc = "deps"
    /\ dependencies # <<>>
    /\ BackendCalls = LoadThenQuery
    /\ loaded = << <<name, version>> >> \o AsModules(dependencies)

\* C16: a toolchain with the dummy name and another version adds its
\* registered dependencies and loads them once; prepare then returns: no
\* toolchain module, no dependencies_for, no consistency check, no
\* set_variables, flag assembly, variable generation or environment write.
C16_DummyLoadsDependenciesOnly ==
    /\ [](  (name = DUMMY_NAME /\ version # DUMMY_VERSION /\ prepares > 0) =>
              /\ pc \in {"exists", "done"}
              /\ pc = "exists" => log = <<>>
              /\ pc = "done" =>
                    /\ log = << Event("add_module", AsModules(dependencies)),
                                Event("load", <<>>) >>
                    /\ loaded = AsModules(dependencies)
                    /\ \A i \in 1..Len(loaded) : loaded[i][1] # name
              /\ vars.none
              /\ variables = <<>>
              /\ environ = <<>>
              /\ toolchain_dependencies = <<>>
              /\ ~mismatch )
    /\ [][ (name = DUMMY_NAME /\ pc = "exists") =>
              /\ pc' = "done"
              /\ UNCHANGED <<variables, vars, environ, toolchain_dependencies,
                             mismatch, error>> ]_vars_all

C16_Witness ==
    /\ name = DUMMY_NAME
    /\ version # DUMMY_VERSION
    /\ pc = "done"
    /\ dependencies # <<>>
    /\ loaded = AsModules(dependencies)
    /\ "load" \in LogOps

\* the stages prepare has run after set_variables
Stages ==
    LET staged == SelectSeq(log, LAMBDA e : e.op \in {"_add_dependency_variables",
                                                     "generate_vars",
                                                     "_setenv_variables"})
    IN [i \in 1..Len(staged) |-> staged[i].op]

AssembleGenerateApply ==
    << "_add_dependency_variables", "generate_vars", "_setenv_variables" >>

\* C17: with onlymod == True a non-dummy prepare generates the variables from
\* the store as it is, assembles no dependency flags and writes no
\* environment variable; with any other onlymod it assembles the flags, then
\* generates the variables, then applies the environment, in that order (a
\* stage that fails ends the call).
C17_OnlymodSelectsStages ==
    /\ [](  (name # DUMMY_NAME /\ "set_variables" \in LogOps) =>
              IF onlymod.kind = "True"
                THEN /\ pc \in {"variables", "done"}
                     /\ pc = "variables" => Stages = <<>>
                     /\ pc = "done" => Stages = << "generate_vars" >>
                     /\ "get_software_root" \notin LogOps
                     /\ "setvar" \notin LogOps
                ELSE /\ pc \in {"variables", "generated", "done", "failed"}
                     /\ pc = "variables" => Stages = <<>>
                     /\ pc = "generated" => Stages = SubSeq(AssembleGenerateApply, 1, 2)
                     /\ pc = "done" => Stages = AssembleGenerateApply
                     /\ pc = "failed" =>
                           \/ Stages = SubSeq(AssembleGenerateApply, 1, 1) /\ error = E_NO_ROOT
                           \/ Stages = AssembleGenerateApply /\ error = E_LEGACY_LIST )
    /\ [][ (name # DUMMY_NAME /\ pc = "variables" /\ onlymod.kind = "True") =>
              /\ variables' = variables
              /\ environ' = environ
              /\ vars' = generate_vars(variables) ]_vars_all

C17_Witness ==
    /\ name # DUMMY_NAME
    /\ onlymod.kind = "True"
    /\ pc = "done"
    /\ dependencies # <<>>
    /\ ~vars.none
    /\ Stages = << "generate_vars" >>

\* the declared elements: what the module-name attributes yield when iterated,
\* without the toolchain's own name
DeclaredElements ==
    UNION { Iterate(module_names[x]) : x \in DOMAIN module_names } \ {name}

\* C18: a declared element that is not required and is absent from the
\* reported names is removed from the declared set, so that its absence alone
\* gives no mismatch; a required element absent from the reported names gives
\* a mismatch, and so does a reported name that is not declared.
C18_OptionalMayBeAbsent ==
    "verify" \in LogOps =>
       /\ \A e \in DeclaredElements :
             (e \in optional /\ e \notin ReportedNames)
                => e \notin toolchain_elements_mod_names(toolchain_dependencies)
       /\ ( /\ \A e \in DeclaredElements \ ReportedNames : e \in optional
            /\ ReportedNames \subseteq DeclaredElements ) => ~mismatch
       /\ (\E e \in DeclaredElements : e \notin optional /\ e \notin ReportedNames)
             => mismatch
       /\ (\E r \in ReportedNames : r \notin DeclaredElements) => mismatch
       /\ \A e \in DeclaredElements : is_required(e) <=> e \notin optional

C18_Witness ==
    /\ "verify" \in LogOps
    /\ optional # {}
    /\ optional \subseteq DeclaredElements
    /\ ReportedNames = {}
    /\ ~mismatch

\* TRUE when add_dependencies raises on the dependency handed in alone
Rejected(dep) == add_dependencies(<<>>, <<dep>>, 1).error # ""

\* the position of the first element add_dependencies raises on, one past the
\* end when it raises on none
FirstRejected(input) ==
    IF \E i \in 1..Len(input) : Rejected(input[i])
      THEN CHOOSE i \in 1..Len(input) :
              Rejected(input[i]) /\ \A j \in 1..(i - 1) : ~Rejected(input[j])
      ELSE Len(input) + 1

\* C19: after add_dependencies the dependency list is what it was, followed by
\* the accepted elements of the input in input order; when the call fails at
\* element k, the first k - 1 elements are appended and none from k on.
C19_AppendsAcceptedPrefix ==
    Len(added) > 0 =>
       LET before == Added.before
           input == Added.input
           k == FirstRejected(input)
       IN /\ Len(dependencies) = Len(before) + k - 1
          /\ SubSeq(dependencies, 1, Len(before)) = before
          /\ \A i \in 1..(k - 1) :
                LET dep == dependencies[Len(before) + i]
                IN /\ DOMAIN dep = DOMAIN input[i] \cup {"tc"}
                   /\ \A key \in DOMAIN input[i] : dep[key] = input[i][key]
          /\ (error = "") <=> (k = Len(input) + 1)

C19_Witness ==
    /\ Len(added) > 0
    /\ error # ""
    /\ Len(Added.before) > 0
    /\ FirstRejected(Added.input) = 2
    /\ Len(dependencies) = Len(Added.before) + 1
    /\ dependencies[Len(dependencies)]["name"] = Added.input[1]["name"]

FirstLegacy(input) ==
    IF \E i \in 1..Len(input) : "tk" \in DOMAIN input[i]
      THEN CHOOSE i \in 1..Len(input) :
              "tk" \in DOMAIN input[i] /\ \A j \in 1..(i - 1) : "tk" \notin DOMAIN input[j]
      ELSE 0

\* C21: add_dependencies fails on an input holding a dependency with the
\* legacy key tk: that dependency and the ones after it are not appended, no
\* registered dependency ever carries tk, and when the loop gets to it the
\* legacy error is raised with no backend call made for it.
C21_LegacyKeyFails ==
    /\ \A i \in 1..Len(dependencies) : "tk" \notin DOMAIN dependencies[i]
    /\ (Len(added) > 0 /\ FirstLegacy(Added.input) > 0) =>
          LET before == Added.before
              input == Added.input
              k == FirstLegacy(input)
              earlier == SubSeq(input, 1, k - 1)
          IN /\ error # ""
             /\ Len(dependencies) < Len(before) + k
             /\ SubSeq(dependencies, 1, Len(before)) = before
             /\ (\A j \in 1..(k - 1) : ~Rejected(input[j])) =>
                   /\ error = E_LEGACY_TK
                   /\ Len(dependencies) = Len(before) + k - 1
                   /\ log = add_dependencies(before, earlier, 1).calls

C21_Witness ==
    /\ Len(added) > 0
    /\ Len(Added.input) = 2
    /\ "tk" \in DOMAIN Added.input[1]
    /\ ~Rejected(Added.input[2])
    /\ error = E_LEGACY_TK
    /\ dependencies = Added.before
    /\ log = <<>>

====
